---- MODULE Spec2Model ----
(***************************************************************************)
(* Model of the Ecobee thermostat plugin (src/src/main.ts): the Controller *)
(* (EcobeeController) with its startup, pin handshake, token calls and     *)
(* discovery, the Gateway req() with its token refresh and retry, and one  *)
(* Reconciler (EcobeeThermostat) with refresh(), reload() and the command  *)
(* methods.                                                                *)
(*                                                                         *)
(* A step of the model is one turn of the JavaScript event loop: it starts *)
(* when a call is invoked or an awaited HTTP exchange settles and runs the *)
(* synchronous code and the await continuations up to the next HTTP        *)
(* exchange (or to the end of the call).                                   *)
(*                                                                         *)
(* Strings that the code searches or splits are sequences of one-character *)
(* strings.  Temperatures in degrees Celsius are integers in hundredths of *)
(* a degree (the code rounds them to 2 decimal places).  A value that may  *)
(* be `undefined` is a sequence of length 0 (undefined) or 1 (the value).  *)
(***************************************************************************)
EXTENDS Integers, Sequences, FiniteSets, TLC

VARIABLES
    access_token,        \* EcobeeController.access_token: <<>> or <<token id>>
    storage,             \* the persisted settings the token calls use
    issued,              \* vendor: number of token pairs issued so far
    devices,             \* EcobeeController.devices: the Reconcilers by nativeId
    published,           \* the list last given to deviceManager.onDevicesChanged
    boot,                \* the constructor's initialize() call
    pin,                 \* the putSetting() call in flight, with its getCode()
    interfaces,          \* the Reconciler's interfaces, set at discovery
    revisionList,        \* EcobeeThermostat.revisionList: <<>> or <<list>>
    temperature,         \* <<>> or <<hundredths of a degree Celsius>>
    humidity,            \* <<>> or <<percent>>
    temperatureSetting,  \* [activeMode, mode, setpoint]
    humiditySetting,     \* [mode, activeMode, humidifierSetpoint]
    on,                  \* fan on/off: <<>> or <<BOOLEAN>>
    airQuality,          \* <<>> or <<AirQuality>>
    vocDensity,          \* <<>> or <<tenths of the vendor unit>>
    co2ppm,              \* <<>> or <<tenths of the vendor unit>>
    reloaded,            \* history: some reload() has applied a payload
    call                 \* the calls in flight, one record per slot

lifecycle == <<devices, published, boot, pin>>
controller == <<access_token, storage, issued, lifecycle>>
device == <<interfaces, revisionList, temperature, humidity, temperatureSetting,
            humiditySetting, on, airQuality, vocDensity, co2ppm>>
vars == <<access_token, storage, issued, devices, published, boot, pin,
          interfaces, revisionList, temperature, humidity, temperatureSetting,
          humiditySetting, on, airQuality, vocDensity, co2ppm, reloaded, call>>

----------------------------------------------------------------------------
(* Bounds *)

\* The vendor issues at most this many token pairs in a run.  Every retry of
\* req() follows a successful token refresh, so this also bounds the retries.
MaxIssued == 4

\* The slots for calls in flight.
Tasks == {1, 2}

\* discoverDevices() publishes at most this many device lists in a run.
MaxPasses == 3

\* The vendor's temperatures, in tenths of a degree Fahrenheit, lie between
\* -MaxRaw and MaxRaw.
MaxRaw == 1500

----------------------------------------------------------------------------
(* JavaScript values and strings *)

None == <<>>
Some(v) == <<v>>

\* The numbers the parameter `attempt` of req() can hold.
Undefined == [kind |-> "undefined", n |-> 0]
NaN == [kind |-> "NaN", n |-> 0]
Num(n) == [kind |-> "number", n |-> n]

ToNumber(v) == IF v.kind = "undefined" THEN NaN ELSE v

\* v > k: false whenever an operand converts to NaN
GreaterThan(v, k) == ToNumber(v).kind = "number" /\ ToNumber(v).n > k

\* The value of the expression v++ : the old value of v, as a number
\* (the incremented value is stored in v, not produced).
PostIncrement(v) == ToNumber(v)

\* Division of n by d > 0 rounded to the nearest integer, halves away from zero
\* (Number.prototype.toFixed).
RoundDiv(n, d) ==
    IF n >= 0 THEN (2 * n + d) \div (2 * d) ELSE -((2 * (-n) + d) \div (2 * d))

\* String.prototype.includes
Includes(s, sub) ==
    \E i \in 0..(Len(s) - Len(sub)) : SubSeq(s, i + 1, i + Len(sub)) = sub

LowerChar(c) ==
    CASE c = "C" -> "c" [] c = "H" -> "h" [] c = "P" -> "p" [] c = "W" -> "w"
      [] OTHER -> c

\* String.prototype.toLowerCase
toLowerCase(s) == [i \in 1..Len(s) |-> LowerChar(s[i])]

\* String.prototype.split with a one-character separator
RECURSIVE SplitFrom(_, _, _, _)
SplitFrom(s, sep, i, cur) ==
    IF i > Len(s) THEN <<cur>>
    ELSE IF s[i] = sep THEN <<cur>> \o SplitFrom(s, sep, i + 1, <<>>)
    ELSE SplitFrom(s, sep, i + 1, Append(cur, s[i]))

split(s, sep) == SplitFrom(s, sep, 1, <<>>)

\* Array.prototype.join with a one-character separator (builds vendor strings)
RECURSIVE join(_, _)
join(parts, sep) ==
    IF Len(parts) = 0 THEN <<>>
    ELSE IF Len(parts) = 1 THEN parts[1]
    ELSE parts[1] \o <<sep>> \o join(Tail(parts), sep)

----------------------------------------------------------------------------
(* Unit/Enum translator *)

API_RETRY == 2

\* Variant of ecobeeIntToCelsius: rounded to whole degrees
ecobeeIntToCelsiusWhole(intV) == RoundDiv((intV - 320) * 5, 90) * 100

\* intV: tenths of a degree Fahrenheit.  c = (5/9)(intV/10 - 32), toFixed(2):
\* in hundredths of a degree Celsius, (intV - 320) * 50 / 9 rounded.
ecobeeIntToCelsius(intV) == RoundDiv((intV - 320) * 50, 9)

\* c: hundredths of a degree Celsius.  f = c * 1.8 + 32, (f * 10).toFixed(0):
\* (9c + 16000) / 50 rounded.  (Equal to the double-precision result for
\* every c of at least -5.00 degrees and for every c that ecobeeIntToCelsius
\* returns for -3000..3000; below -5.00 degrees the double of f * 10 can fall
\* under a half that the exact value reaches.)
celsiusToEcobeeInt(c) == RoundDiv(9 * c + 16000, 50)

\* Variant of ecobeeToThermostatMode: auxHeatOnly is taken for heat
ecobeeToThermostatModeAux(mode) ==
    CASE mode = "cool" -> "Cool"
      [] mode = "heat" -> "Heat"
      [] mode = "auxHeatOnly" -> "Heat"
      [] mode = "auto" -> "HeatCool"
      [] OTHER -> "Off"

ecobeeToThermostatMode(mode) ==
    CASE mode = "cool" -> "Cool"
      [] mode = "heat" -> "Heat"
      [] mode = "auto" -> "HeatCool"
      [] OTHER -> "Off"

thermostatModeToEcobee(mode) ==
    CASE mode = "Cool" -> "cool"
      [] mode = "Heat" -> "heat"
      [] mode = "HeatCool" -> "auto"
      [] OTHER -> "off"

humModeFromEcobee(mode) ==
    CASE mode = "auto" -> "Auto"
      [] mode = "manual" -> "Humidify"
      [] OTHER -> "Off"

AirQualityFromAQScore(aqScore) ==
    IF aqScore < 51 THEN "Excellent"
    ELSE IF aqScore < 101 THEN "Good"
    ELSE IF aqScore < 151 THEN "Fair"
    ELSE IF aqScore < 201 THEN "Poor"
    ELSE IF aqScore < 301 THEN "Poor"
    ELSE IF aqScore < 501 THEN "Inferior"
    ELSE "Unknown"

----------------------------------------------------------------------------
(* What the vendor can answer *)

\* The thermostat identifier (nativeId)
Id == <<"7">>

\* The identifier of a second thermostat of the account
Id2 == <<"8">>

\* Equipment names of the vendor's equipmentStatus vocabulary
heatPump == <<"h", "e", "a", "t", "P", "u", "m", "p">>
auxHeat1 == <<"a", "u", "x", "H", "e", "a", "t", "1">>
compCool1 == <<"c", "o", "m", "p", "C", "o", "o", "l", "1">>
fan == <<"f", "a", "n">>
humidifier == <<"h", "u", "m", "i", "d", "i", "f", "i", "e", "r">>
dehumidifier == <<"d", "e">> \o humidifier
compHotWater == <<"c", "o", "m", "p", "H", "o", "t", "W", "a", "t", "e", "r">>

\* equipmentStatus strings: the running equipment, comma separated
EquipmentSamples ==
    { <<>>,
      join(<<heatPump, fan>>, ","),
      join(<<compCool1, humidifier>>, ","),
      join(<<dehumidifier, compHotWater>>, ",") }

\* The revision fields of a summary: tId, tName, connected, thermostat,
\* alerts, runtime, interval
BaseRevision == << Id, <<"n">>, <<"t">>, <<"0">>, <<"0">>, <<"0">>, <<"0">> >>

\* Revisions that differ from BaseRevision in the name and the connectivity
\* or in one of the four fields after them, so two of them differ in one to
\* four fields.
RevisionSamples ==
    {BaseRevision, [BaseRevision EXCEPT ![2] = <<"m">>, ![3] = <<"f">>]}
        \cup {[BaseRevision EXCEPT ![i] = <<"1">>] : i \in 4..7}

\* GET thermostatSummary: { revisionList: [string], statusList: [string] }
SummarySamples ==
    { [revisionList |-> <<join(r, ":")>>, statusList |-> <<join(<<Id, e>>, ":")>>] :
        r \in RevisionSamples, e \in EquipmentSamples }

SettingsSamples ==
    { [hvacMode |-> "cool", humidifierMode |-> "off", humidity |-> 30],
      [hvacMode |-> "heat", humidifierMode |-> "auto", humidity |-> 36],
      [hvacMode |-> "auto", humidifierMode |-> "manual", humidity |-> 40],
      [hvacMode |-> "off", humidifierMode |-> "off", humidity |-> 30],
      [hvacMode |-> "auxHeatOnly", humidifierMode |-> "auto", humidity |-> 36] }

RuntimeSamples ==
    { [actualTemperature |-> 725, actualHumidity |-> 41, desiredHeat |-> 680,
       desiredCool |-> 760, actualAQScore |-> 45, actualVOC |-> 512,
       actualCO2 |-> 6040],
      [actualTemperature |-> 655, actualHumidity |-> 58, desiredHeat |-> 670,
       desiredCool |-> 790, actualAQScore |-> 120, actualVOC |-> 1875,
       actualCO2 |-> 9100] }

\* GET thermostat: thermostatList[0]
ThermostatSamples ==
    { p \in { [settings |-> s, runtime |-> r,
               equipmentStatus |->
                   IF r.actualTemperature < r.desiredHeat
                   THEN join(<<auxHeat1, fan>>, ",") ELSE <<>>] :
               s \in SettingsSamples, r \in RuntimeSamples } :
        p.equipmentStatus # <<>> => p.settings.hvacMode \in {"heat", "auto"} }

\* POST thermostat: status.code
StatusCodes == {0, 3}

\* The interface list discovery gives the Reconciler of a thermostat with a
\* humidifier and air-quality sensors
InterfaceSamples ==
    { {"Thermometer", "HumiditySensor", "Refresh", "TemperatureSetting", "OnOff",
       "HumiditySetting", "AirQualitySensor", "VOCSensor", "CO2Sensor"} }

\* An element of thermostatList as discoverDevices reads it.  A runtime field
\* the vendor leaves out is undefined.
ApiDevice(id, hasHumidifier, aqScore, voc, co2) ==
    [ identifier |-> id,
      settings |-> [hasHumidifier |-> hasHumidifier],
      runtime |-> [actualAQScore |-> aqScore, actualVOC |-> voc, actualCO2 |-> co2] ]

\* A thermostat with a humidifier and air-quality sensors
FullDevice == ApiDevice(Id, TRUE, Some(45), Some(512), Some(6040))

\* GET thermostat with the "registered" selection: thermostatList
DiscoverySamples ==
    { <<>>,
      <<FullDevice>>,
      <<ApiDevice(Id, TRUE, Some(0), Some(-5002), None)>>,
      <<ApiDevice(Id, FALSE, None, None, Some(0))>> }

\* thermostatList over several discovery passes: also a second thermostat
\* next to the first
PassSamples ==
    DiscoverySamples
      \cup { <<FullDevice, ApiDevice(Id2, FALSE, Some(-1), Some(0), None)>> }

\* The persisted settings a run can start with: nothing stored; a client id
\* and the authorization code of a pin handshake; these and the refresh token
\* an earlier run stored (token pair 0).  Codes and tokens of this run are
\* numbered from 1.
StartupStorage ==
    { [client_id |-> c[1], ecobee_code |-> c[2], refresh_token |-> c[3],
       sensors_only |-> so] :
        c \in { <<None, None, None>>,
                <<Some("app"), Some(0), None>>,
                <<Some("app"), Some(0), Some(0)>> },
        so \in {None, Some("true")} }

\* TemperatureCommand values the host sends: setpoints in hundredths of a
\* degree Celsius
Single(v) == [kind |-> "number", v |-> <<v>>]
Pair(h, c) == [kind |-> "array", v |-> <<h, c>>]
NoSetpoint == [kind |-> "undefined", v |-> <<>>]

CommandSamples ==
    { [mode |-> None, setpoint |-> Single(2100)],
      [mode |-> Some("HeatCool"), setpoint |-> Pair(2000, 2450)],
      [mode |-> Some("Off"), setpoint |-> NoSetpoint] }

----------------------------------------------------------------------------
(* Discovery *)

Range(seq) == {seq[i] : i \in 1..Len(seq)}

\* v >= 0 of JavaScript for a number or undefined: undefined >= 0 is false
AtLeastZero(v) == v # None /\ v[1] >= 0

\* Variant of deviceInterfaces: the humidifier is exposed whether or not
\* only sensors are wanted
deviceInterfacesHumidifier(apiDevice, sensors_only) ==
    <<"Thermometer", "HumiditySensor", "Refresh">>
      \o (IF sensors_only = Some("true") THEN <<>>
          ELSE <<"TemperatureSetting", "OnOff">>)
      \o (IF apiDevice.settings.hasHumidifier THEN <<"HumiditySetting">> ELSE <<>>)
      \o (IF AtLeastZero(apiDevice.runtime.actualAQScore)
          THEN <<"AirQualitySensor">> ELSE <<>>)
      \o (IF AtLeastZero(apiDevice.runtime.actualVOC) THEN <<"VOCSensor">> ELSE <<>>)
      \o (IF AtLeastZero(apiDevice.runtime.actualCO2) THEN <<"CO2Sensor">> ELSE <<>>)

\* The interfaces discoverDevices derives for one apiDevice, in push order
deviceInterfaces(apiDevice, sensors_only) ==
    <<"Thermometer", "HumiditySensor", "Refresh">>
      \o (IF sensors_only = Some("true") THEN <<>>
          ELSE <<"TemperatureSetting", "OnOff">>
                 \o (IF apiDevice.settings.hasHumidifier
                     THEN <<"HumiditySetting">> ELSE <<>>))
      \o (IF AtLeastZero(apiDevice.runtime.actualAQScore)
          THEN <<"AirQualitySensor">> ELSE <<>>)
      \o (IF AtLeastZero(apiDevice.runtime.actualVOC) THEN <<"VOCSensor">> ELSE <<>>)
      \o (IF AtLeastZero(apiDevice.runtime.actualCO2) THEN <<"CO2Sensor">> ELSE <<>>)

\* The Device discoverDevices builds for one apiDevice
discoverDevice(apiDevice, sensors_only) ==
    [ nativeId |-> apiDevice.identifier,
      type |-> IF sensors_only = Some("true") THEN "Sensor" ELSE "Thermostat",
      interfaces |-> deviceInterfaces(apiDevice, sensors_only) ]

\* The device list discoverDevices builds from thermostatList
discoverList(apiDevices, sensors_only) ==
    [i \in 1..Len(apiDevices) |-> discoverDevice(apiDevices[i], sensors_only)]

\* Variant of syncDevices: every listed device gets a new Reconciler
syncDevicesAnew(map, list, instance) ==
    [ id \in DOMAIN map \cup {list[i].nativeId : i \in 1..Len(list)} |->
        IF id \in {list[i].nativeId : i \in 1..Len(list)} THEN instance ELSE map[id] ]

\* The Map after the loop of discoverDevices over the device list: a
\* Reconciler is constructed for every nativeId that has none; `instance`
\* names the ones constructed in this pass
syncDevices(map, list, instance) ==
    [ id \in DOMAIN map \cup {list[i].nativeId : i \in 1..Len(list)} |->
        IF id \in DOMAIN map THEN map[id] ELSE instance ]

----------------------------------------------------------------------------
(* The Reconciler's synchronous methods *)

\* _updateEquipmentStatus: the characteristics derived from equipmentStatus
updateEquipmentStatus(equipmentStatus, ts, hs) ==
    LET status == toLowerCase(equipmentStatus)
        activeMode ==
            IF Includes(status, <<"h", "e", "a", "t">>) THEN "Heat"
            ELSE IF Includes(status, <<"c", "o", "o", "l">>) THEN "Cool"
            ELSE "Off"
    IN  [ temperatureSetting |-> [ts EXCEPT !.activeMode = activeMode],
          humiditySetting |->
              [hs EXCEPT !.activeMode =
                  IF Includes(status, humidifier) THEN "Humidify" ELSE "Off"],
          on |-> Some(Includes(status, fan)) ]

\* list[i] of JavaScript: undefined past the end
At(list, i) == IF i + 1 <= Len(list) THEN Some(list[i + 1]) ELSE None

\* Variant of updateRevisionList: the comparison skips the first 4 fields
updateRevisionListFrom4(listStr, oldList) ==
    LET newList == split(listStr, ":")
        listItemsLength == 7
    IN  [ revisionList |-> Some(newList),
          changed |->
              IF oldList = None THEN TRUE
              ELSE \E i \in 4..(listItemsLength - 1) :
                      At(newList, i) # At(oldList[1], i) ]

\* _updateRevisionList: stores the new list, tells whether it changed
updateRevisionList(listStr, oldList) ==
    LET newList == split(listStr, ":")
        listItemsLength == 7
    IN  [ revisionList |-> Some(newList),
          changed |->
              IF oldList = None THEN TRUE
              ELSE \E i \in 3..(listItemsLength - 1) :
                      At(newList, i) # At(oldList[1], i) ]

\* The setpoint reload() stores for the vendor's hvacMode
reloadSetpoint(data) ==
    CASE data.settings.hvacMode = "cool" ->
            Single(ecobeeIntToCelsius(data.runtime.desiredCool))
      [] data.settings.hvacMode = "heat" ->
            Single(ecobeeIntToCelsius(data.runtime.desiredHeat))
      [] OTHER ->
            Pair(ecobeeIntToCelsius(data.runtime.desiredHeat),
                 ecobeeIntToCelsius(data.runtime.desiredCool))

\* reload(), after its request: the state it stores from thermostatList[0]
reloadApply(data, ifaces, ts, hs, aq, voc, co2) ==
    LET eq == updateEquipmentStatus(data.equipmentStatus, ts, hs)
    IN  [ temperature |-> Some(ecobeeIntToCelsius(data.runtime.actualTemperature)),
          humidity |-> Some(data.runtime.actualHumidity),
          on |-> eq.on,
          temperatureSetting |->
              [eq.temperatureSetting EXCEPT
                  !.mode = ecobeeToThermostatMode(data.settings.hvacMode),
                  !.setpoint = reloadSetpoint(data)],
          humiditySetting |->
              [eq.humiditySetting EXCEPT
                  !.mode = humModeFromEcobee(data.settings.humidifierMode),
                  !.humidifierSetpoint = Some(data.settings.humidity)],
          airQuality |->
              IF "AirQualitySensor" \in ifaces
              THEN Some(AirQualityFromAQScore(data.runtime.actualAQScore)) ELSE aq,
          \* actualVOC / 10 and actualCO2 / 10, kept in tenths
          vocDensity |->
              IF "VOCSensor" \in ifaces THEN Some(data.runtime.actualVOC) ELSE voc,
          co2ppm |->
              IF "CO2Sensor" \in ifaces THEN Some(data.runtime.actualCO2) ELSE co2 ]

----------------------------------------------------------------------------
(* Calls *)

\* A call slot.  op: the public method running; method, endpoint, attempt:
\* the arguments of the req() it is in; pc: what it awaits.  The rest is
\* history of the call: http, refreshes: the HTTP requests and the token
\* refreshes of the current req(); sent: the access token the latest HTTP
\* request carried; got: the access token the latest refresh returned;
\* reloads, reloadsDone: the reload() calls issued and ended; ack: the status
\* code of the command's answer; data: the body of the request in flight;
\* ret: what the latest req() returned; error: the error the call threw;
\* after: in a refresh(), "reloadFailed" when the call before it in the slot
\* was a refresh() whose reload() threw.
IdleCall ==
    [ op |-> "none", method |-> "none", endpoint |-> "none", pc |-> "idle",
      attempt |-> Undefined, http |-> 0, refreshes |-> 0, sent |-> None,
      got |-> None, reloads |-> 0, reloadsDone |-> 0, ack |-> None,
      data |-> None, ret |-> None, error |-> "none", after |-> "none" ]

\* The call is in reload() (discoverDevices requests the same endpoint)
InReload(c) ==
    c.op # "discoverDevices" /\ c.method = "get" /\ c.endpoint = "thermostat"

\* An error leaves req() and, uncaught, every caller up to the host
Throw(c, err) ==
    [c EXCEPT !.pc = "failed", !.error = err, !.data = None,
              !.reloadsDone = IF InReload(c) THEN @ + 1 ELSE @]

\* The call returns to the host
Return(c) == [c EXCEPT !.pc = "done"]

\* Variant of req: the retry reuses the Authorization header of the first
\* request
reqStaleToken(c, method, endpoint, attempt, token) ==
    LET r == [c EXCEPT !.method = method, !.endpoint = endpoint,
                       !.attempt = attempt]
    IN  IF GreaterThan(attempt, API_RETRY)
        THEN Throw(r, "RequestFailed")
        ELSE [r EXCEPT !.pc = "http", !.http = @ + 1,
                       !.sent = IF c.sent # None THEN c.sent ELSE token]

\* req(method, endpoint, json, data, attempt), up to its HTTP request, which
\* carries the access token `token`
req(c, method, endpoint, attempt, token) ==
    LET r == [c EXCEPT !.method = method, !.endpoint = endpoint,
                       !.attempt = attempt]
    IN  IF GreaterThan(attempt, API_RETRY)
        THEN Throw(r, "RequestFailed")
        ELSE [r EXCEPT !.pc = "http", !.sent = token, !.http = @ + 1]

\* A caller's req(method, endpoint, json, data): attempt is not passed
request(c, method, endpoint, token) ==
    req([c EXCEPT !.http = 0, !.refreshes = 0, !.sent = None, !.got = None],
        method, endpoint, Undefined, token)

\* A public method is invoked in slot c
Invoke(c, op) == [IdleCall EXCEPT !.op = op]

\* discoverDevices(), up to its request
discover(c, token) ==
    request(Invoke(c, "discoverDevices"), "get", "thermostat", token)

\* refresh(), up to its request
refresh(c, token) ==
    request([Invoke(c, "refresh") EXCEPT
                !.after = IF c.op = "refresh" /\ c.pc = "failed" /\ c.reloads = 1
                          THEN "reloadFailed" ELSE "none"],
            "get", "thermostatSummary", token)

\* reload(), up to its request
reload(c, token) ==
    request([c EXCEPT !.reloads = @ + 1], "get", "thermostat", token)

\* Variant of setHold: a pair is sent as [cool, heat]
setHoldSwapped(command) ==
    IF command.setpoint.kind = "array"
    THEN Some([type |-> "setHold", holdType |-> "nextTransition",
               heatHoldTemp |-> celsiusToEcobeeInt(command.setpoint.v[2]),
               coolHoldTemp |-> celsiusToEcobeeInt(command.setpoint.v[1])])
    ELSE IF command.setpoint.kind # "undefined"
    THEN Some([type |-> "setHold", holdType |-> "nextTransition",
               heatHoldTemp |-> celsiusToEcobeeInt(command.setpoint.v[1]),
               coolHoldTemp |-> celsiusToEcobeeInt(command.setpoint.v[1])])
    ELSE None

\* The setHold function of setTemperature
setHold(command) ==
    IF command.setpoint.kind = "array"
    THEN Some([type |-> "setHold", holdType |-> "nextTransition",
               heatHoldTemp |-> celsiusToEcobeeInt(command.setpoint.v[1]),
               coolHoldTemp |-> celsiusToEcobeeInt(command.setpoint.v[2])])
    ELSE IF command.setpoint.kind # "undefined"
    THEN Some([type |-> "setHold", holdType |-> "nextTransition",
               heatHoldTemp |-> celsiusToEcobeeInt(command.setpoint.v[1]),
               coolHoldTemp |-> celsiusToEcobeeInt(command.setpoint.v[1])])
    ELSE None

\* The request body of setTemperature
setTemperatureData(command) ==
    [ selectionMatch |-> Id,
      functions |-> setHold(command),
      thermostat |->
          IF command.mode # None
          THEN Some([hvacMode |-> thermostatModeToEcobee(command.mode[1])])
          ELSE None ]

\* The request body of turnOn ("on") and turnOff ("auto")
fanData(fanMode) ==
    [ selectionMatch |-> Id,
      functions |-> Some([type |-> "setHold", holdType |-> "nextTransition",
                          coolHoldTemp |-> 900, heatHoldTemp |-> 550,
                          fan |-> fanMode]),
      thermostat |-> None ]

\* A command method, up to its request
command(c, op, data, token) ==
    request([Invoke(c, op) EXCEPT !.data = Some(data)], "post", "thermostat", token)

\* Variant of commandAnswered: reload() is called and not awaited
commandAnsweredDetached(c, code, token) ==
    LET a == [c EXCEPT !.ack = Some(code), !.ret = Some([status |-> code]),
                       !.data = None]
    IN  IF code = 0 THEN Return([a EXCEPT !.reloads = @ + 1]) ELSE Return(a)

\* A command method after its request returned resp.status.code
commandAnswered(c, code, token) ==
    LET a == [c EXCEPT !.ack = Some(code), !.ret = Some([status |-> code]),
                       !.data = None]
    IN  IF code = 0 THEN reload(a, token) ELSE Return(a)

Commands == {"setTemperature", "turnOn", "turnOff"}

Free(t) == call[t].pc \in {"idle", "done", "failed"}

\* The state the constructor of EcobeeThermostat leaves
NewReconciler ==
    [ revisionList |-> None,
      temperatureSetting |->
          [activeMode |-> "undefined", mode |-> "undefined", setpoint |-> NoSetpoint],
      humiditySetting |->
          [mode |-> "Off", activeMode |-> "undefined", humidifierSetpoint |-> None],
      call |-> [IdleCall EXCEPT !.op = "refresh", !.pc = "scheduled"] ]

----------------------------------------------------------------------------
(* Actions *)

\* The state after discovery constructed the Reconciler: the controller
\* holds the tokens of the first exchange, and the constructor has
\* scheduled refresh("constructor") with setImmediate.
Init ==
    /\ access_token = Some(1)
    /\ storage = [client_id |-> Some("app"), ecobee_code |-> Some(0),
                  refresh_token |-> Some(1), sensors_only |-> None]
    /\ issued = 1
    /\ devices = (Id :> 1)
    /\ published = [pass |-> 1, devices |-> discoverList(<<FullDevice>>, None)]
    /\ boot = [pc |-> "done"]
    /\ pin = [pc |-> "idle"]
    /\ interfaces \in InterfaceSamples
    /\ revisionList = None
    /\ temperature = None
    /\ humidity = None
    /\ temperatureSetting =
           [activeMode |-> "undefined", mode |-> "undefined", setpoint |-> NoSetpoint]
    /\ humiditySetting =
           [mode |-> "Off", activeMode |-> "undefined", humidifierSetpoint |-> None]
    /\ on = None
    /\ airQuality = None
    /\ vocDensity = None
    /\ co2ppm = None
    /\ reloaded = FALSE
    /\ call = [t \in Tasks |->
                 IF t = 1 THEN [IdleCall EXCEPT !.op = "refresh", !.pc = "scheduled"]
                 ELSE IdleCall]

\* setImmediate(() => this.refresh("constructor", false))
ConstructorRefresh(t) ==
    /\ call[t].pc = "scheduled"
    /\ call' = [call EXCEPT ![t] = refresh(@, access_token)]
    /\ UNCHANGED <<controller, device, reloaded>>

\* Variant of Refresh: the token is refreshed before the summary request
RefreshProactive(t) ==
    /\ Free(t)
    /\ call' = [call EXCEPT ![t] =
                   [refresh(@, access_token) EXCEPT !.pc = "token", !.http = 0,
                                                    !.refreshes = 1]]
    /\ UNCHANGED <<controller, device, reloaded>>

\* The host invokes refresh()
Refresh(t) ==
    /\ Free(t)
    /\ call' = [call EXCEPT ![t] = refresh(@, access_token)]
    /\ UNCHANGED <<controller, device, reloaded>>

\* The host invokes setTemperature(command)
SetTemperature(t, cmd) ==
    /\ Free(t)
    /\ call' = [call EXCEPT ![t] =
                   command(@, "setTemperature", setTemperatureData(cmd), access_token)]
    /\ UNCHANGED <<controller, device, reloaded>>

\* Variant of TurnOn: the fan is shown on before the vendor answers
TurnOnOptimistic(t) ==
    /\ Free(t)
    /\ call' = [call EXCEPT ![t] = command(@, "turnOn", fanData("on"), access_token)]
    /\ on' = Some(TRUE)
    /\ UNCHANGED <<controller, interfaces, revisionList, temperature, humidity,
                   temperatureSetting, humiditySetting, airQuality, vocDensity,
                   co2ppm, reloaded>>

\* The host invokes turnOn()
TurnOn(t) ==
    /\ Free(t)
    /\ call' = [call EXCEPT ![t] = command(@, "turnOn", fanData("on"), access_token)]
    /\ UNCHANGED <<controller, device, reloaded>>

\* The host invokes turnOff()
TurnOff(t) ==
    /\ Free(t)
    /\ call' = [call EXCEPT ![t] = command(@, "turnOff", fanData("auto"), access_token)]
    /\ UNCHANGED <<controller, device, reloaded>>

\* axios.request rejects: req() logs and calls refreshToken(), which posts
RequestError(t) ==
    /\ call[t].pc = "http"
    /\ call' = [call EXCEPT ![t].pc = "token", ![t].refreshes = @ + 1]
    /\ UNCHANGED <<controller, device, reloaded>>

\* The token request of refreshToken() succeeds: the tokens are stored and
\* req() calls itself with attempt++
TokenResponse(t) ==
    /\ call[t].pc = "token"
    /\ issued < MaxIssued
    /\ issued' = issued + 1
    /\ access_token' = Some(issued + 1)
    /\ storage' = [storage EXCEPT !.refresh_token = Some(issued + 1)]
    /\ call' = [call EXCEPT ![t] =
                   req([@ EXCEPT !.got = Some(issued + 1)], @.method, @.endpoint,
                       PostIncrement(@.attempt), Some(issued + 1))]
    /\ UNCHANGED <<lifecycle, device, reloaded>>

\* Variant of TokenError: the failed refresh is swallowed and req() retries
TokenErrorRetried(t) ==
    /\ call[t].pc = "token"
    /\ call' = [call EXCEPT ![t] =
                   req(@, @.method, @.endpoint, PostIncrement(@.attempt),
                       access_token)]
    /\ UNCHANGED <<controller, device, reloaded>>

\* Variant of TokenError: the failed refresh drops the access token
TokenErrorForgets(t) ==
    /\ call[t].pc = "token"
    /\ call' = [call EXCEPT ![t] = Throw(@, "TokenError")]
    /\ access_token' = None
    /\ UNCHANGED <<storage, issued, lifecycle, device, reloaded>>

\* The token request of refreshToken() fails: the error leaves req()
TokenError(t) ==
    /\ call[t].pc = "token"
    /\ call' = [call EXCEPT ![t] = Throw(@, "TokenError")]
    /\ UNCHANGED <<controller, device, reloaded>>

\* Variant of SummaryResponse: the equipment status is applied only when the
\* revision list did not change
SummaryResponseLazy(t, data) ==
    /\ call[t].pc = "http"
    /\ call[t].endpoint = "thermostatSummary"
    /\ LET eq == updateEquipmentStatus(split(data.statusList[1], ":")[2],
                                       temperatureSetting, humiditySetting)
           rev == updateRevisionList(data.revisionList[1], revisionList)
       IN  /\ temperatureSetting' =
                  IF rev.changed THEN temperatureSetting ELSE eq.temperatureSetting
           /\ humiditySetting' =
                  IF rev.changed THEN humiditySetting ELSE eq.humiditySetting
           /\ on' = IF rev.changed THEN on ELSE eq.on
           /\ revisionList' = rev.revisionList
           /\ call' = [call EXCEPT ![t] =
                          IF rev.changed
                          THEN reload([@ EXCEPT !.ret = Some(data)], access_token)
                          ELSE Return([@ EXCEPT !.ret = Some(data)])]
    /\ UNCHANGED <<controller, interfaces, temperature, humidity, airQuality,
                   vocDensity, co2ppm, reloaded>>

\* refresh() after its request returned `data`
SummaryResponse(t, data) ==
    /\ call[t].pc = "http"
    /\ call[t].endpoint = "thermostatSummary"
    /\ LET eq == updateEquipmentStatus(split(data.statusList[1], ":")[2],
                                       temperatureSetting, humiditySetting)
           rev == updateRevisionList(data.revisionList[1], revisionList)
       IN  /\ temperatureSetting' = eq.temperatureSetting
           /\ humiditySetting' = eq.humiditySetting
           /\ on' = eq.on
           /\ revisionList' = rev.revisionList
           /\ call' = [call EXCEPT ![t] =
                          IF rev.changed
                          THEN reload([@ EXCEPT !.ret = Some(data)], access_token)
                          ELSE Return([@ EXCEPT !.ret = Some(data)])]
    /\ UNCHANGED <<controller, interfaces, temperature, humidity, airQuality,
                   vocDensity, co2ppm, reloaded>>

\* reload() after its request returned thermostatList[0] = data
ThermostatResponse(t, data) ==
    /\ call[t].pc = "http"
    /\ InReload(call[t])
    /\ LET new == reloadApply(data, interfaces, temperatureSetting, humiditySetting,
                              airQuality, vocDensity, co2ppm)
       IN  /\ temperature' = new.temperature
           /\ humidity' = new.humidity
           /\ on' = new.on
           /\ temperatureSetting' = new.temperatureSetting
           /\ humiditySetting' = new.humiditySetting
           /\ airQuality' = new.airQuality
           /\ vocDensity' = new.vocDensity
           /\ co2ppm' = new.co2ppm
    /\ reloaded' = TRUE
    /\ call' = [call EXCEPT ![t] =
                   Return([@ EXCEPT !.ret = Some(data), !.reloadsDone = @ + 1])]
    /\ UNCHANGED <<controller, interfaces, revisionList>>

\* A command method after its request returned status.code = code
CommandResponse(t, code) ==
    /\ call[t].pc = "http"
    /\ call[t].method = "post"
    /\ call' = [call EXCEPT ![t] = commandAnswered(@, code, access_token)]
    /\ UNCHANGED <<controller, device, reloaded>>

\* The host runs one call at a time, in slot 1
Serial(t) == t = 1 /\ \A u \in Tasks : Free(u)

----------------------------------------------------------------------------
(* The Controller: startup, pin handshake and discovery *)

\* initialize() calls discoverDevices() without awaiting it: discovery runs
\* on its own, in slot 2
Detached(t) == t = 2 /\ Free(t)

\* Variant of Initialize: a stored refresh token is taken for a credential
\* and discovery starts without the token refresh
InitializeEager(t) ==
    /\ boot.pc = "start"
    /\ IF storage.client_id = None
       THEN /\ boot' = [boot EXCEPT !.pc = "unconfigured"]
            /\ call' = call
       ELSE IF storage.refresh_token = None
       THEN /\ boot' = [boot EXCEPT !.pc = "getToken"]
            /\ call' = call
       ELSE /\ boot' = [boot EXCEPT !.pc = "done"]
            /\ call' = [call EXCEPT ![t] = discover(@, access_token)]
    /\ UNCHANGED <<access_token, storage, issued, devices, published, pin,
                   device, reloaded>>

\* The constructor calls initialize(), which runs up to its first await
Initialize(t) ==
    /\ boot.pc = "start"
    /\ IF storage.client_id = None
       THEN \* alert "You must specify a client ID."
            /\ boot' = [boot EXCEPT !.pc = "unconfigured"]
            /\ call' = call
       ELSE IF storage.refresh_token = None
       THEN /\ boot' = [boot EXCEPT !.pc = "getToken"]
            /\ call' = call
       ELSE IF access_token = None
       THEN /\ boot' = [boot EXCEPT !.pc = "refreshToken"]
            /\ call' = call
       ELSE /\ boot' = [boot EXCEPT !.pc = "done"]
            /\ call' = [call EXCEPT ![t] = discover(@, access_token)]
    /\ UNCHANGED <<access_token, storage, issued, devices, published, pin,
                   device, reloaded>>

\* The token request of getToken() or refreshToken() in initialize() succeeds:
\* the tokens are stored and initialize() calls discoverDevices()
InitializeTokenResponse(t) ==
    /\ boot.pc \in {"getToken", "refreshToken"}
    /\ issued < MaxIssued
    /\ issued' = issued + 1
    /\ access_token' = Some(issued + 1)
    /\ storage' = [storage EXCEPT !.refresh_token = Some(issued + 1)]
    /\ boot' = [boot EXCEPT !.pc = "done"]
    /\ call' = [call EXCEPT ![t] = discover(@, Some(issued + 1))]
    /\ UNCHANGED <<devices, published, pin, device, reloaded>>

\* The token request of getToken() or refreshToken() in initialize() fails:
\* the error leaves initialize()
InitializeTokenError ==
    /\ boot.pc \in {"getToken", "refreshToken"}
    /\ boot' = [boot EXCEPT !.pc = "failed"]
    /\ UNCHANGED <<access_token, storage, issued, devices, published, pin,
                   device, reloaded, call>>

\* The host calls putSetting(key, value) of the constructed controller: the
\* value is stored, and a client id starts getCode(), which requests a pin
PutSetting(key, value) ==
    /\ boot.pc # "start"
    /\ pin.pc # "authorize"
    /\ storage' = [storage EXCEPT ![key] = Some(value)]
    /\ pin' = [pin EXCEPT !.pc = IF key = "client_id" THEN "authorize" ELSE @]
    /\ UNCHANGED <<access_token, issued, devices, published, boot, device,
                   reloaded, call>>

\* Variant of CodeResponse: getCode() goes on to exchange the code
CodeResponsePolling ==
    /\ pin.pc = "authorize"
    /\ storage' = [storage EXCEPT !.ecobee_code = Some(1)]
    /\ pin' = [pin EXCEPT !.pc = "done"]
    /\ boot' = [boot EXCEPT !.pc = IF @ = "unconfigured" THEN "getToken" ELSE @]
    /\ UNCHANGED <<access_token, issued, devices, published, device,
                   reloaded, call>>

\* The authorize request of getCode() succeeds: the pin is shown in an alert
\* and the code is stored
CodeResponse ==
    /\ pin.pc = "authorize"
    /\ storage' = [storage EXCEPT !.ecobee_code = Some(1)]
    /\ pin' = [pin EXCEPT !.pc = "done"]
    /\ UNCHANGED <<access_token, issued, devices, published, boot, device,
                   reloaded, call>>

\* The authorize request of getCode() fails: the error leaves putSetting()
CodeError ==
    /\ pin.pc = "authorize"
    /\ pin' = [pin EXCEPT !.pc = "failed"]
    /\ UNCHANGED <<access_token, storage, issued, devices, published, boot,
                   device, reloaded, call>>

\* discoverDevices() after its request returned thermostatList = apiDevices:
\* the device list is built and given to deviceManager.onDevicesChanged(),
\* from which the host sets the interfaces the Reconciler reads
DiscoveryResponse(t, apiDevices) ==
    /\ call[t].pc = "http"
    /\ call[t].op = "discoverDevices"
    /\ LET list == discoverList(apiDevices, storage.sensors_only)
       IN  /\ published' = [pass |-> published.pass + 1, devices |-> list]
           /\ interfaces' =
                  IF \E i \in 1..Len(list) : list[i].nativeId = Id
                  THEN Range((CHOOSE d \in Range(list) : d.nativeId = Id).interfaces)
                  ELSE interfaces
    /\ call' = [call EXCEPT ![t] = [@ EXCEPT !.pc = "publish", !.ret = Some(apiDevices)]]
    /\ UNCHANGED <<access_token, storage, issued, devices, boot, pin, revisionList,
                   temperature, humidity, temperatureSetting, humiditySetting, on,
                   airQuality, vocDensity, co2ppm, reloaded>>

\* discoverDevices() after onDevicesChanged() returned: a Reconciler is
\* constructed for every listed device that has none; the constructor of
\* the thermostat's Reconciler schedules its first refresh
DevicesChanged(t) ==
    /\ call[t].pc = "publish"
    /\ LET list == discoverList(call[t].ret[1], storage.sensors_only)
           created == Id \in {list[i].nativeId : i \in 1..Len(list)} \ DOMAIN devices
       IN  /\ devices' = syncDevices(devices, list, published.pass)
           /\ revisionList' = IF created THEN NewReconciler.revisionList ELSE revisionList
           /\ temperatureSetting' =
                  IF created THEN NewReconciler.temperatureSetting ELSE temperatureSetting
           /\ humiditySetting' =
                  IF created THEN NewReconciler.humiditySetting ELSE humiditySetting
           /\ call' = [call EXCEPT ![t] = Return(@),
                                   ![1] = IF created THEN NewReconciler.call ELSE @]
    /\ UNCHANGED <<access_token, storage, issued, published, boot, pin, interfaces,
                   temperature, humidity, on, airQuality, vocDensity, co2ppm, reloaded>>

\* The host calls releaseDevice(id, nativeId), which does nothing
ReleaseDevice(nativeId) ==
    /\ nativeId \in DOMAIN devices
    /\ UNCHANGED vars

\* The host calls a method of the thermostat's Reconciler, which exists and
\* declares the interface
Hosted(t, interface) ==
    Serial(t) /\ Id \in DOMAIN devices /\ interface \in interfaces

\* A run from the construction of the EcobeeController
InitController ==
    /\ access_token = None
    /\ storage \in StartupStorage
    /\ issued = 0
    /\ devices = <<>>
    /\ published = [pass |-> 0, devices |-> <<>>]
    /\ boot = [pc |-> "start"]
    /\ pin = [pc |-> "idle"]
    /\ interfaces = {}
    /\ revisionList = NewReconciler.revisionList
    /\ temperature = None
    /\ humidity = None
    /\ temperatureSetting = NewReconciler.temperatureSetting
    /\ humiditySetting = NewReconciler.humiditySetting
    /\ on = None
    /\ airQuality = None
    /\ vocDensity = None
    /\ co2ppm = None
    /\ reloaded = FALSE
    /\ call = [t \in Tasks |-> IdleCall]

\* The vendor's answers in a run from construction
ControllerSummaries ==
    { [revisionList |-> <<join(r, ":")>>, statusList |-> <<join(<<Id, e>>, ":")>>] :
        r \in {BaseRevision, [BaseRevision EXCEPT ![4] = <<"1">>]},
        e \in {join(<<heatPump, fan>>, ",")} }

ControllerThermostats ==
    { p \in ThermostatSamples :
        p.settings.hvacMode = "heat" /\ p.runtime.actualTemperature = 655 }

ControllerDiscoveries == {<<>>, <<FullDevice>>}

ControllerCommands == {cmd \in CommandSamples : cmd.setpoint.kind = "array"}

NextController ==
    \/ \E t \in Tasks : Detached(t) /\ Initialize(t)
    \/ \E t \in Tasks : Detached(t) /\ InitializeTokenResponse(t)
    \/ InitializeTokenError
    \/ \E value \in {"app"} : PutSetting("client_id", value)
    \/ \E value \in {"true"} : PutSetting("sensors_only", value)
    \/ CodeResponse
    \/ CodeError
    \/ \E t \in Tasks :
        \/ \E apiDevices \in ControllerDiscoveries : DiscoveryResponse(t, apiDevices)
        \/ DevicesChanged(t)
        \/ ConstructorRefresh(t)
        \/ Hosted(t, "Refresh") /\ Refresh(t)
        \/ Hosted(t, "TemperatureSetting")
              /\ \E cmd \in ControllerCommands : SetTemperature(t, cmd)
        \/ Hosted(t, "OnOff") /\ TurnOn(t)
        \/ Hosted(t, "OnOff") /\ TurnOff(t)
        \/ RequestError(t)
        \/ TokenResponse(t)
        \/ TokenError(t)
        \/ \E data \in ControllerSummaries : SummaryResponse(t, data)
        \/ \E data \in ControllerThermostats : ThermostatResponse(t, data)
        \/ \E code \in StatusCodes : CommandResponse(t, code)

SpecController == InitController /\ [][NextController]_vars

----------------------------------------------------------------------------
(* Discovery passes *)

\* discoverDevices() is called again, by a caller that holds a token
Rediscover(t) ==
    /\ boot.pc = "done"
    /\ access_token # None
    /\ published.pass < MaxPasses
    /\ call' = [call EXCEPT ![t] = discover(@, access_token)]
    /\ UNCHANGED <<controller, device, reloaded>>

\* A run from construction with the refresh token of an earlier run stored
InitDiscovery ==
    /\ InitController
    /\ storage.refresh_token # None

NextDiscovery ==
    \/ \E t \in Tasks : Detached(t) /\ Initialize(t)
    \/ \E t \in Tasks : Detached(t) /\ InitializeTokenResponse(t)
    \/ InitializeTokenError
    \/ \E value \in {"true", "false"} : PutSetting("sensors_only", value)
    \/ \E nativeId \in {Id, Id2} : ReleaseDevice(nativeId)
    \/ \E t \in Tasks :
        \/ Detached(t) /\ Rediscover(t)
        \/ \E apiDevices \in PassSamples : DiscoveryResponse(t, apiDevices)
        \/ DevicesChanged(t)
        \/ RequestError(t)
        \/ TokenResponse(t)
        \/ TokenError(t)

SpecDiscovery == InitDiscovery /\ [][NextDiscovery]_vars

----------------------------------------------------------------------------
(* Temperatures through reload() and back through setTemperature() *)

\* GET thermostat: a thermostat in heat mode whose setpoint is `raw`
RoundTripThermostats ==
    { [ settings |-> [hvacMode |-> "heat", humidifierMode |-> "off", humidity |-> 30],
        runtime |-> [actualTemperature |-> raw, actualHumidity |-> 41,
                     desiredHeat |-> raw, desiredCool |-> 760, actualAQScore |-> 45,
                     actualVOC |-> 512, actualCO2 |-> 6040],
        equipmentStatus |-> <<>> ] : raw \in (0 - MaxRaw)..MaxRaw }

\* The host sends back the setpoint the Reconciler shows
EchoCommand == [mode |-> None, setpoint |-> temperatureSetting.setpoint]

\* The host calls in slot 2, once the refresh in slot 1 has reloaded
EchoReady(t) == t = 2 /\ Free(t) /\ call[1].pc = "done" /\ reloaded

NextRoundTrip ==
    \E t \in Tasks :
        \/ ConstructorRefresh(t)
        \/ SummaryResponse(t, [revisionList |-> <<join(BaseRevision, ":")>>,
                               statusList |-> <<join(<<Id, <<>>>>, ":")>>])
        \/ \E data \in RoundTripThermostats : ThermostatResponse(t, data)
        \/ EchoReady(t) /\ SetTemperature(t, EchoCommand)

SpecRoundTrip == Init /\ [][NextRoundTrip]_vars

----------------------------------------------------------------------------
(* Calls that overlap *)

\* The vendor performs the exchange of the refreshToken() request of call t
\* and sends its answer
TokenGranted(t) ==
    /\ call[t].pc = "token"
    /\ issued < MaxIssued
    /\ issued' = issued + 1
    /\ call' = [call EXCEPT ![t] = [@ EXCEPT !.pc = "granted", !.got = Some(issued + 1)]]
    /\ UNCHANGED <<access_token, storage, lifecycle, device, reloaded>>

\* Variant of TokenDelivered: the access token is replaced, the stored
\* refresh token is not
TokenDeliveredPartial(t) ==
    /\ call[t].pc = "granted"
    /\ access_token' = call[t].got
    /\ call' = [call EXCEPT ![t] =
                   req(@, @.method, @.endpoint, PostIncrement(@.attempt), @.got)]
    /\ UNCHANGED <<storage, issued, lifecycle, device, reloaded>>

\* The answer reaches refreshToken(): the tokens are stored and req() calls
\* itself with attempt++
TokenDelivered(t) ==
    /\ call[t].pc = "granted"
    /\ access_token' = call[t].got
    /\ storage' = [storage EXCEPT !.refresh_token = call[t].got]
    /\ call' = [call EXCEPT ![t] =
                   req(@, @.method, @.endpoint, PostIncrement(@.attempt), @.got)]
    /\ UNCHANGED <<issued, lifecycle, device, reloaded>>

\* A method of the thermostat's Reconciler is called while another call may
\* be in flight: nothing in the plugin serializes its calls
Overlapping(t) == Free(t) /\ Id \in DOMAIN devices

\* A run from construction with a client id stored
InitConcurrent ==
    /\ InitController
    /\ storage.client_id # None
    /\ storage.sensors_only = None

\* The vendor's summaries while calls overlap
ConcurrentSummaries ==
    { d \in ControllerSummaries : d.revisionList[1] = join(BaseRevision, ":") }

NextConcurrent ==
    \/ \E t \in Tasks : Detached(t) /\ Initialize(t)
    \/ \E t \in Tasks : Detached(t) /\ InitializeTokenResponse(t)
    \/ InitializeTokenError
    \/ \E t \in Tasks :
        \/ DiscoveryResponse(t, <<FullDevice>>)
        \/ DevicesChanged(t)
        \/ ConstructorRefresh(t)
        \/ Overlapping(t) /\ Refresh(t)
        \/ Overlapping(t) /\ TurnOn(t)
        \/ RequestError(t)
        \/ TokenGranted(t)
        \/ TokenDelivered(t)
        \/ TokenError(t)
        \/ \E data \in ConcurrentSummaries : SummaryResponse(t, data)
        \/ \E data \in ControllerThermostats : ThermostatResponse(t, data)
        \/ \E code \in StatusCodes : CommandResponse(t, code)

SpecConcurrent == InitConcurrent /\ [][NextConcurrent]_vars

----------------------------------------------------------------------------
(* Reloads that overlap *)

\* The host calls a method of the Reconciler while the refresh() its
\* constructor scheduled awaits the thermostat request of its reload(): a
\* thermostat request of the host's call is issued after that one
Joining(t) ==
    /\ t = 2 /\ Free(t)
    /\ call[1].op = "refresh" /\ call[1].pc = "http" /\ InReload(call[1])

\* The vendor's thermostat payloads while reloads overlap: the thermostat
\* heats, and its readings change between two requests
OverlapThermostats == {p \in ThermostatSamples : p.settings.hvacMode = "heat"}

\* Every request is answered, in any order
NextOverlap ==
    \E t \in Tasks :
        \/ ConstructorRefresh(t)
        \/ Joining(t) /\ Refresh(t)
        \/ Joining(t) /\ TurnOn(t)
        \/ \E data \in ControllerSummaries : SummaryResponse(t, data)
        \/ \E data \in OverlapThermostats : ThermostatResponse(t, data)
        \/ \E code \in StatusCodes : CommandResponse(t, code)

SpecOverlap == Init /\ [][NextOverlap]_vars

Next ==
    \E t \in Tasks :
        \/ ConstructorRefresh(t)
        \/ Serial(t) /\ Refresh(t)
        \/ Serial(t) /\ \E cmd \in CommandSamples : SetTemperature(t, cmd)
        \/ Serial(t) /\ TurnOn(t)
        \/ Serial(t) /\ TurnOff(t)
        \/ RequestError(t)
        \/ TokenResponse(t)
        \/ TokenError(t)
        \/ \E data \in SummarySamples : SummaryResponse(t, data)
        \/ \E data \in ThermostatSamples : ThermostatResponse(t, data)
        \/ \E code \in StatusCodes : CommandResponse(t, code)

Spec == Init /\ [][Next]_vars

----------------------------------------------------------------------------
(* Properties *)

\* C1: a req() whose HTTP request keeps failing while every token refresh
\* succeeds issues at most API_RETRY + 1 HTTP requests, and after the third
\* failure and refresh it throws RequestFailed instead of a fourth request.
C1_RetryIsBounded ==
    \A t \in Tasks :
        /\ call[t].http <= API_RETRY + 1
        /\ (call[t].refreshes = API_RETRY + 1 /\ call[t].pc # "token"
                /\ call[t].error # "TokenError")
              => call[t].error = "RequestFailed"

\* C2: when req() returned after exactly one failed HTTP request, it made
\* exactly one token refresh, its second request carried the access token
\* that refresh returned, and the caller got the body of the second answer
\* and no error.
C2_OneRefreshThenRetry ==
    \A t \in Tasks :
        (call[t].pc = "done" /\ call[t].http = 2)
            => /\ call[t].refreshes = 1
               /\ call[t].got # None
               /\ call[t].sent = call[t].got
               /\ call[t].ret # None
               /\ call[t].error = "none"

C2_Witness ==
    \E t \in Tasks :
        /\ call[t].pc = "done" /\ call[t].http = 2
        /\ call[t].refreshes = 1 /\ call[t].ret # None

\* C3: a step in which the token refresh of a call fails (the call awaited
\* the token request and no token was issued) ends the call with that error,
\* without a further HTTP request or refresh; a call that threw it is over.
C3_RefreshFailurePropagates ==
    /\ [] (\A t \in Tasks : call[t].error = "TokenError" => call[t].pc = "failed")
    /\ [][ \A t \in Tasks :
              (call[t].pc = "token" /\ call'[t] # call[t] /\ issued' = issued)
                  => /\ call'[t].pc = "failed"
                     /\ call'[t].error = "TokenError"
                     /\ call'[t].http = call[t].http
                     /\ call'[t].refreshes = call[t].refreshes ]_vars

C3_Witness ==
    \E t \in Tasks :
        call[t].pc = "failed" /\ call[t].error = "TokenError" /\ call[t].http = 2

\* C4: setTemperature, turnOn and turnOff never end with an error thrown to
\* their caller.
C4_CommandsNeverThrow ==
    \A t \in Tasks : call[t].op \in Commands => call[t].pc # "failed"

\* C5: a command the vendor answered with status code 0 has issued exactly
\* one reload(), and has not ended before that reload ended.
C5_AckThenOneReload ==
    \A t \in Tasks :
        (call[t].op \in Commands /\ call[t].ack = Some(0))
            => /\ call[t].reloads = 1
               /\ call[t].pc \in {"done", "failed"} => call[t].reloadsDone = 1
               /\ call[t].pc \in {"http", "token"} => call[t].reloadsDone = 0

C5_Witness ==
    \E t \in Tasks :
        /\ call[t].op \in Commands /\ call[t].ack = Some(0)
        /\ call[t].pc = "done" /\ call[t].reloadsDone = 1

\* C6: a command the vendor answered with a non-zero status code returns
\* without an error and without a reload(), and no step of a command changes
\* the normalized state before a reload() of that command has ended.
C6_NoSpeculativeMutation ==
    /\ [] (\A t \in Tasks :
              (call[t].op \in Commands /\ call[t].ack # None /\ call[t].ack # Some(0))
                  => /\ call[t].pc = "done"
                     /\ call[t].error = "none"
                     /\ call[t].reloads = 0)
    /\ [][ \A t \in Tasks :
              (call'[t] # call[t] /\ call'[t].op \in Commands
                    /\ call'[t].reloadsDone = 0)
                  => UNCHANGED device ]_vars

C6_Witness ==
    \E t \in Tasks :
        /\ call[t].op = "turnOn" /\ call[t].pc = "done"
        /\ call[t].ack # None /\ call[t].ack # Some(0)
        /\ reloaded /\ on = Some(FALSE)

\* C7: a refresh() that follows a refresh() whose reload() failed, and that
\* returns, has invoked reload() again.
C7_NextRefreshRetriesReload ==
    \A t \in Tasks :
        (call[t].op = "refresh" /\ call[t].after = "reloadFailed"
              /\ call[t].pc = "done")
            => call[t].reloads = 1

\* The step in which refresh() gets the answer of its summary request
SummaryAnswered(t) ==
    /\ call[t].pc = "http"
    /\ call[t].endpoint = "thermostatSummary"
    /\ call'[t].pc # "token"

\* The revision fields the vendor joined into each revisionList string
RevisionOf ==
    [ str \in {join(r, ":") : r \in RevisionSamples} |->
        CHOOSE r \in RevisionSamples : join(r, ":") = str ]

\* The equipment status the vendor put into each statusList string
EquipmentOf ==
    [ str \in {join(<<Id, e>>, ":") : e \in EquipmentSamples} |->
        CHOOSE e \in EquipmentSamples : join(<<Id, e>>, ":") = str ]

\* The revision fields the vendor sent in the summary the call got
ReceivedRevision(c) == RevisionOf[c.ret[1].revisionList[1]]

\* The equipment status the vendor sent in the summary the call got
ReceivedEquipment(c) == EquipmentOf[c.ret[1].statusList[1]]

\* The indices at which two revision lists differ
DifferAt(a, b) == {i \in 0..6 : a[i + 1] # b[i + 1]}

\* C8: in refresh(), the first revision list ever seen triggers a reload; one
\* that differs from the stored list only at indices 0-2 does not; one that
\* differs at any of indices 3-6 does; and the list received is stored.
C8_FingerprintComparison ==
    [][ \A t \in Tasks :
           SummaryAnswered(t) =>
               LET received == ReceivedRevision(call'[t])
                   triggered == InReload(call'[t]) /\ call'[t].reloads = 1
               IN  /\ revisionList' = Some(received)
                   /\ revisionList = None => triggered
                   /\ (revisionList # None
                         /\ DifferAt(received, revisionList[1]) \subseteq {0, 1, 2})
                        => ~triggered
                   /\ (revisionList # None
                         /\ DifferAt(received, revisionList[1]) \cap {3, 4, 5, 6} # {})
                        => triggered ]_vars

C8_Witness ==
    \E t \in Tasks :
        /\ call[t].op = "refresh" /\ call[t].pc = "done" /\ call[t].reloads = 0
        /\ reloaded
        /\ revisionList = Some([BaseRevision EXCEPT ![2] = <<"m">>, ![3] = <<"f">>])

\* C9: every answered summary request of refresh() stores the fan state and
\* the active thermostat and humidity modes of the equipment status it got,
\* whether or not a reload follows; when the revision list did not change at
\* indices 3-6, refresh() returns without a thermostat request and leaves
\* temperature, humidity, mode, setpoint, humidity mode and setpoint as they were.
C9_SummaryAppliesEquipmentStatus ==
    [][ \A t \in Tasks :
           SummaryAnswered(t) =>
               LET eq == updateEquipmentStatus(ReceivedEquipment(call'[t]),
                                               temperatureSetting, humiditySetting)
                   unchanged ==
                       /\ revisionList # None
                       /\ DifferAt(ReceivedRevision(call'[t]), revisionList[1])
                              \cap {3, 4, 5, 6} = {}
               IN  /\ on' = eq.on
                   /\ temperatureSetting'.activeMode = eq.temperatureSetting.activeMode
                   /\ humiditySetting'.activeMode = eq.humiditySetting.activeMode
                   /\ unchanged =>
                        /\ call'[t].pc = "done"
                        /\ call'[t].reloads = 0
                        /\ call'[t].http = call[t].http
                        /\ temperature' = temperature
                        /\ humidity' = humidity
                        /\ temperatureSetting'.mode = temperatureSetting.mode
                        /\ temperatureSetting'.setpoint = temperatureSetting.setpoint
                        /\ humiditySetting'.mode = humiditySetting.mode
                        /\ humiditySetting'.humidifierSetpoint =
                               humiditySetting.humidifierSetpoint ]_vars

C9_Witness ==
    \E t \in Tasks :
        /\ call[t].op = "refresh" /\ call[t].pc = "done" /\ call[t].reloads = 0
        /\ reloaded /\ temperature # None
        /\ on = Some(TRUE) /\ temperatureSetting.activeMode = "Heat"
        /\ temperatureSetting.mode = "Cool"

\* C10: once a reload() has completed, the setpoint is a single value when
\* the mode is Heat or Cool and a pair otherwise; a reload() that just
\* returned stored the pair as [heat, cool] of its payload.
C10_SetpointShapeMatchesMode ==
    /\ reloaded =>
          IF temperatureSetting.mode \in {"Heat", "Cool"}
          THEN /\ temperatureSetting.setpoint.kind = "number"
               /\ Len(temperatureSetting.setpoint.v) = 1
          ELSE /\ temperatureSetting.mode \in {"HeatCool", "Off"}
               /\ temperatureSetting.setpoint.kind = "array"
               /\ Len(temperatureSetting.setpoint.v) = 2
    /\ \A t \in Tasks :
          (call[t].pc = "done" /\ InReload(call[t])
                /\ temperatureSetting.setpoint.kind = "array")
              => temperatureSetting.setpoint.v =
                     << ecobeeIntToCelsius(call[t].ret[1].runtime.desiredHeat),
                        ecobeeIntToCelsius(call[t].ret[1].runtime.desiredCool) >>

C10_Witness ==
    /\ reloaded
    /\ temperatureSetting.mode = "Off"
    /\ temperatureSetting.setpoint.kind = "array"
    /\ \E t \in Tasks : call[t].op \in Commands /\ call[t].pc = "done"

\* C11: every HTTP request req() issued, for discovery and for any refresh,
\* reload or command of the Reconciler, carried an access token that a token
\* exchange of this run (code exchange or refresh) had returned; while no
\* access token is held, no request of req() is in flight.
C11_TokenBeforeRequest ==
    \A t \in Tasks :
        /\ call[t].http > 0 =>
              (call[t].sent # None /\ call[t].sent[1] \in 1..issued)
        /\ call[t].pc = "http" => access_token # None

C11_Witness ==
    /\ call[2].op = "discoverDevices" /\ call[2].pc = "done" /\ call[2].sent = Some(1)
    /\ call[1].op \in Commands /\ call[1].pc = "http" /\ call[1].http = 2
    /\ call[1].sent = access_token

\* C12: a step in which a token exchange fails (getToken() or refreshToken()
\* in initialize(), or refreshToken() in req(): the call awaited the token
\* request and the vendor issued no token) leaves the access token and the
\* stored refresh token as they were, and ends the caller with the error.
C12_FailedExchangeKeepsCredential ==
    [][ /\ (boot.pc \in {"getToken", "refreshToken"} /\ boot' # boot
                /\ issued' = issued)
            => /\ access_token' = access_token
               /\ storage'.refresh_token = storage.refresh_token
               /\ boot'.pc = "failed"
        /\ \A t \in Tasks :
              (call[t].pc = "token" /\ call'[t] # call[t] /\ issued' = issued)
                  => /\ access_token' = access_token
                     /\ storage'.refresh_token = storage.refresh_token
                     /\ call'[t].pc = "failed"
                     /\ call'[t].error = "TokenError" ]_vars

C12_Witness ==
    \E t \in Tasks :
        /\ call[t].pc = "failed" /\ call[t].error = "TokenError"
        /\ call[t].refreshes = 2 /\ call[t].got # None
        /\ access_token = call[t].got
        /\ storage.refresh_token = call[t].got
        /\ storage.ecobee_code = Some(1)

\* C13: whenever an access token is held, it and the stored refresh token
\* are the two tokens of one token response, however the token calls of
\* overlapping requests interleave.
C13_CredentialIsOnePair ==
    access_token # None => storage.refresh_token = access_token

C13_Witness ==
    /\ \A t \in Tasks : call[t].refreshes = 1 /\ call[t].pc = "http"
    /\ call[1].got # call[2].got
    /\ access_token = Some(issued - 1)
    /\ storage.refresh_token = Some(issued - 1)

\* C15: when no token refresh is in flight, the access token held and the
\* refresh token stored are those of the latest exchange the vendor
\* performed, also after two overlapping calls each refreshed the token.
C15_LatestExchangeWins ==
    (\A t \in Tasks : call[t].pc \notin {"token", "granted"})
        => (access_token # None
              => /\ access_token = Some(issued)
                 /\ storage.refresh_token = Some(issued))

\* A step in which initialize() calls refreshToken()
StartupRefresh == boot.pc # "refreshToken" /\ boot'.pc = "refreshToken"

\* A step in which the call in slot t calls refreshToken()
RefreshStarts(t) == call[t].pc # "token" /\ call'[t].pc = "token"

\* C14 as stated: every refreshToken() call is made by req() for a request
\* that failed, and by nothing else.
C14_RefreshOnlyAfterFailure ==
    [][ /\ ~StartupRefresh
        /\ \A t \in Tasks :
              RefreshStarts(t) =>
                  /\ call[t].pc = "http"
                  /\ call'[t].refreshes = call[t].refreshes + 1 ]_vars

\* C14 as amended: every refreshToken() call is made either by initialize()
\* at startup, when a refresh token is stored and no access token is held
\* (before any request of req()), or by req() for a request that failed.
C14_RefreshAtStartupOrAfterFailure ==
    [][ /\ StartupRefresh =>
              /\ boot.pc = "start"
              /\ storage.refresh_token # None
              /\ access_token = None
              /\ \A t \in Tasks : call[t].http = 0
        /\ \A t \in Tasks :
              RefreshStarts(t) =>
                  /\ call[t].pc = "http"
                  /\ call'[t].refreshes = call[t].refreshes + 1 ]_vars

C14_Witness ==
    \E t \in Tasks :
        /\ call[t].op = "refresh" /\ call[t].pc = "http"
        /\ call[t].refreshes = 1 /\ call[t].http = 2
        /\ call[t].got = Some(2) /\ access_token = Some(2)

\* The step in which discoverDevices() gets thermostatList and publishes
\* its device list
DiscoveryAnswered(t) ==
    /\ call[t].pc = "http"
    /\ call[t].op = "discoverDevices"
    /\ call'[t].pc = "publish"

\* A runtime field is present and not negative
Reported(v) == Len(v) = 1 /\ ~(v[1] < 0)

\* C16: a discovery pass publishes one device per thermostat of the payload,
\* always with Thermometer, HumiditySensor and Refresh; with sensors_only set
\* the device is a Sensor without TemperatureSetting, OnOff and
\* HumiditySetting, whatever hasHumidifier says; AirQualitySensor, VOCSensor
\* and CO2Sensor are present exactly when the runtime field of each is
\* present and not negative, with or without the flag.
C16_SensorsOnlyCapabilities ==
    [][ \A t \in Tasks :
           DiscoveryAnswered(t) =>
               LET api == call'[t].ret[1]
                   list == published'.devices
               IN  /\ Len(list) = Len(api)
                   /\ \A i \in 1..Len(api) :
                         LET has == Range(list[i].interfaces)
                             runtime == api[i].runtime
                         IN  /\ list[i].nativeId = api[i].identifier
                             /\ {"Thermometer", "HumiditySensor", "Refresh"} \subseteq has
                             /\ storage.sensors_only = Some("true") =>
                                   /\ list[i].type = "Sensor"
                                   /\ has \cap {"TemperatureSetting", "OnOff",
                                                 "HumiditySetting"} = {}
                             /\ "AirQualitySensor" \in has <=> Reported(runtime.actualAQScore)
                             /\ "VOCSensor" \in has <=> Reported(runtime.actualVOC)
                             /\ "CO2Sensor" \in has <=> Reported(runtime.actualCO2) ]_vars

C16_Witness ==
    \E t \in Tasks :
        /\ call[t].op = "discoverDevices" /\ call[t].pc = "done"
        /\ storage.sensors_only = Some("true")
        /\ call[t].ret = Some(<<ApiDevice(Id, TRUE, Some(0), Some(-5002), None)>>)
        /\ published.devices =
               << [ nativeId |-> Id, type |-> "Sensor",
                    interfaces |-> <<"Thermometer", "HumiditySensor", "Refresh",
                                     "AirQualitySensor">> ] >>

\* C17: no step removes an identifier from the Controller's map or replaces
\* the Reconciler of an identifier, and when a discovery pass has ended every
\* identifier of the list it published has a Reconciler.
C17_DeviceMapOnlyGrows ==
    /\ [][ \A id \in DOMAIN devices :
               id \in DOMAIN devices' /\ devices'[id] = devices[id] ]_vars
    /\ [] (\A t \in Tasks :
              (call[t].op = "discoverDevices" /\ call[t].pc = "done")
                  => \A i \in 1..Len(published.devices) :
                         published.devices[i].nativeId \in DOMAIN devices)

C17_Witness ==
    /\ published.pass = 3
    /\ published.devices = <<>>
    /\ call[2].op = "discoverDevices" /\ call[2].pc = "done"
    /\ devices = (Id :> 1 @@ Id2 :> 2)

\* A step in which initialize() calls getToken()
ExchangeStarts == boot.pc # "getToken" /\ boot'.pc = "getToken"

\* A step in which discoverDevices() is called in slot t
DiscoveryStarts(t) ==
    /\ call[t].pc \in {"idle", "done", "failed"}
    /\ call'[t].op = "discoverDevices"
    /\ call'[t].pc = "http"

\* A step in which the controller attempts a token exchange, a token
\* refresh or a discovery
Proceeds ==
    \/ ExchangeStarts
    \/ StartupRefresh
    \/ \E t \in Tasks : RefreshStarts(t) \/ DiscoveryStarts(t)

\* C18 as stated: from the step in which getCode() stores the authorization
\* code, no step of the run attempts a code-to-token exchange, a token refresh
\* or a discovery; getToken() is called by initialize() at startup only.
C18_NothingAfterHandshake ==
    [][ /\ storage'.ecobee_code = Some(1) => ~Proceeds
        /\ ExchangeStarts => boot.pc = "start" ]_vars

\* C18 as amended: in a run that started without a stored client id, from
\* the step in which getCode() stores the authorization code, no step
\* attempts a code-to-token exchange, a token refresh or a discovery, and no
\* token, device or request exists; getToken() is called by initialize() at
\* startup only.
C18_NothingAfterFirstHandshake ==
    /\ [][ /\ (boot.pc = "unconfigured" /\ storage'.ecobee_code = Some(1))
                  => ~Proceeds
           /\ ExchangeStarts => boot.pc = "start" ]_vars
    /\ [] (boot.pc = "unconfigured"
              => /\ access_token = None /\ issued = 0
                 /\ DOMAIN devices = {}
                 /\ \A t \in Tasks : call[t].pc = "idle")

C18_Witness ==
    /\ boot.pc = "unconfigured"
    /\ pin.pc = "done"
    /\ storage.client_id = Some("app")
    /\ storage.ecobee_code = Some(1)
    /\ access_token = None

\* The setHold function with the two hold temperatures
Hold(heat, cool) ==
    [ type |-> "setHold", holdType |-> "nextTransition",
      heatHoldTemp |-> heat, coolHoldTemp |-> cool ]

C20_RoundTripWithinOne ==
    \A t, u \in Tasks :
        (call[t].op = "setTemperature" /\ call[t].data # None
              /\ call[u].op = "refresh" /\ call[u].pc = "done" /\ InReload(call[u]))
            => LET raw == call[u].ret[1].runtime.desiredHeat
                   hold == call[t].data[1].functions[1]
               IN  /\ hold.heatHoldTemp - raw \in -1..1
                   /\ hold.coolHoldTemp - raw \in -1..1

C20_Witness ==
    \E t, u \in Tasks :
        /\ call[t].op = "setTemperature" /\ call[t].pc = "http"
        /\ call[u].op = "refresh" /\ call[u].pc = "done"
        /\ call[u].ret[1].runtime.desiredHeat = -237
        /\ temperatureSetting.setpoint = Single(-3094)
        /\ call[t].data[1].functions[1].heatHoldTemp = -237

\* The equipment named in an equipmentStatus string: the vendor lists the
\* running equipment separated by commas
Running(equipmentStatus) ==
    IF equipmentStatus = <<>> THEN {} ELSE Range(split(equipmentStatus, ","))

\* C21: for an equipment status composed of the documented vocabulary, every
\* answered summary request of refresh() leaves the active humidity mode at
\* Humidify if and only if the humidifier is among the running equipment, and
\* at Off otherwise.
C21_HumidifyIffHumidifierRuns ==
    [][ \A t \in Tasks :
           SummaryAnswered(t) =>
               LET running == Running(ReceivedEquipment(call'[t]))
               IN  humiditySetting'.activeMode =
                       IF humidifier \in running THEN "Humidify" ELSE "Off" ]_vars

\* The call has completed a reload()
Reloaded(c) == c.pc = "done" /\ InReload(c) /\ c.reloadsDone = 1

\* The normalized state reload() stores from a payload
Normalized(data) ==
    reloadApply(data, interfaces, temperatureSetting, humiditySetting,
                airQuality, vocDensity, co2ppm)

\* C22: when the reload() of the constructor's refresh() and the reload() of
\* a call the host made while that one was in flight have both completed,
\* the normalized state is that of the payload the later-issued thermostat
\* request (the host call's) received.
C22_LaterFetchWins ==
    (Reloaded(call[1]) /\ Reloaded(call[2]))
        => LET new == Normalized(call[2].ret[1])
           IN  /\ temperature = new.temperature
               /\ humidity = new.humidity
               /\ on = new.on
               /\ temperatureSetting = new.temperatureSetting
               /\ humiditySetting = new.humiditySetting
               /\ airQuality = new.airQuality
               /\ vocDensity = new.vocDensity
               /\ co2ppm = new.co2ppm

====
